---- MODULE Spec2Model ----
(***************************************************************************)
(* TreeDB: session-scoped exclusive access to a (data source, table)       *)
(* resource, and the parent-pointer node table behind /api/nodes.          *)
(*                                                                         *)
(* Two state machines share this module:                                   *)
(*   Spec      - the session registry behind /api/session together with    *)
(*               the browser clients that drive it (session.js,            *)
(*               config-form-controller.js).  The registry itself is not   *)
(*               part of the sources; it is modelled from spec.md 4.1,     *)
(*               4.2 and 6.                                                *)
(*   SpecStore - the node table and the request handlers of server.js      *)
(*               (handleApi).                                              *)
(***************************************************************************)
EXTENDS Integers, Sequences, FiniteSets, TLC

\* ------------------------------------------------------------------ bounds
MaxSessions == 2      \* session ids the registry may hand out in one run
MaxTime     == 3      \* clock ticks in one run
MaxNodeId   == 6      \* largest AUTOINCREMENT id the table may hand out
MaxRequests == 2      \* /api/nodes requests received in one run
MaxRows     == 3      \* rows of a node array handed to the tree functions, and of table tool
MaxRuns     == 2      \* runs of the renumbering script

\* --------------------------------------------------------------- constants
\* One clock unit is 15 minutes: the idle timeout (1800 s) is two units.
IdleTimeout == 2

\* the spacing of the sort_order values the renumbering script writes
GAP == 1000

\* JS null / undefined / absent localStorage entry, by type
NoSession == 0
NoConfig  == [DB_PATH |-> "", TABLE_NAME |-> ""]
NoError   == [name |-> "none", code |-> "", heldBy |-> NoSession]

Clients    == {"c1", "c2"}
Operators  == {"c1"}   \* tabs in which the operator submits the configuration form
Tabs       == {"c2"}   \* tabs that use the SessionManager API
SessionIds == 1..MaxSessions

\* Configurations the operator can submit.  DB_PATH is free text; two
\* spellings of one file and one other file are enough to tell a raw string
\* comparison from a comparison of normalised resource keys.
Paths   == {"a.db", "A.DB", "b.db"}
Tables  == {"tree_nodes"}
Configs == [DB_PATH : Paths, TABLE_NAME : Tables]

VARIABLES
  \* ---- session registry (server side)
  sessions,     \* sessionId -> [resourceKey, config, lastAccessAt, owner]
  nextId,       \* next session id the registry hands out
  now,          \* wall clock
  lastOp,       \* the operation performed by the last step: what it asked of the
                \* registry, what the registry answered, what the client threw
  \* ---- browser clients
  pc,           \* position of each client inside applyConfig
  cfgOf,        \* config argument of the running applyConfig
  ls,           \* localStorage['treedb.activeSessionId'] of each client
  lsLast,       \* localStorage['treedb.lastSessionId'] of each client
  smId,         \* SessionManager.sessionId of each client
  apiId,        \* ApiClient.sessionId of each client
  sid,          \* local variable sessionId of the running applyConfig
  queue,        \* sessions still to be visited by cleanupConflictingSessions
  confirmed,    \* the operator answered "yes" to the overwrite dialog in this applyConfig
  inflight,     \* keepalive DELETE /api/session requests sent but not yet handled
  validating,   \* the session id each client's validateAndRestoreSession waits on
  \* ---- node table and /api/nodes requests (server.js)
  table,        \* id -> [parent_id, sort_order] : the rows of TABLE_NAME
  lastID,       \* AUTOINCREMENT sequence: the largest id ever handed out
  reqs,         \* the /api/nodes requests whose handler waits for the database
  issued,       \* number of /api/nodes requests received so far
  response,     \* the response sent by the last step
  \* ---- tree functions of the browser (tree.js, ui.js)
  data,         \* the node array (state.data): id -> [parent_id], with sort for moveNode
  result,       \* what the last call of a tree function returned
  \* ---- renumbering script (Scripts/test-0.sql)
  tool,         \* id -> sort_order : the rows of table tool
  tmp,          \* id -> new_sort_order : the rows of tmp_tool_sort
  sortPc,       \* the statement the script is at
  pending,      \* rows the running UPDATE has not written yet
  orig,         \* table tool as it was when the running script started
  runs          \* completed runs of the script

sessionVars == <<sessions, nextId, now, lastOp>>
clientVars  == <<pc, cfgOf, ls, lsLast, smId, apiId, sid, queue, confirmed, inflight>>
storeVars   == <<table, lastID, reqs, issued, response>>
treeVars    == <<data, result>>
sortVars    == <<tool, tmp, sortPc, pending, orig, runs>>
vars        == <<sessions, nextId, now, lastOp, pc, cfgOf, ls, lsLast, smId, apiId, sid,
                 queue, confirmed, inflight, validating, table, lastID, reqs, issued, response,
                 data, result, tool, tmp, sortPc, pending, orig, runs>>

\* the elements of a set of integers in ascending order (rowid / id order)
RECURSIVE Ascending(_)
Ascending(S) ==
  IF S = {} THEN << >>
  ELSE LET m == CHOOSE x \in S : \A y \in S : x <= y
       IN  <<m>> \o Ascending(S \ {m})

\* =================================================================
\* SessionRegistry (spec.md 4.1) and AccessCoordinator (4.2)
\* =================================================================

\* "derived from data source path + table name, case/path-normalized"
NormalizePath(p) ==
  CASE p = "a.db" -> "a.db"
    [] p = "A.DB" -> "a.db"
    [] p = "b.db" -> "b.db"
    [] OTHER      -> p

ResourceKey(cfg) == <<NormalizePath(cfg.DB_PATH), cfg.TABLE_NAME>>

\* (variant) a session counts as expired as soon as its idle time reaches the timeout
IsExpired_AtTimeout(reg, s, t) == t - reg[s].lastAccessAt >= IdleTimeout

\* a session is expired when its idle time exceeds the timeout
IsExpired(reg, s, t) == t - reg[s].lastAccessAt > IdleTimeout

Restrict(reg, keep) == [s \in keep |-> reg[s]]

\* sweep(now) -> [revokedSessionIds]
SweptIds(reg, t) == {s \in DOMAIN reg : IsExpired(reg, s, t)}
SweepOp(reg, t)  == Restrict(reg, DOMAIN reg \ SweptIds(reg, t))

\* find(resourceKey) -> Session | None
Holders(reg, key) == {s \in DOMAIN reg : reg[s].resourceKey = key}
FindOp(reg, key)  == IF Holders(reg, key) = {} THEN NoSession
                     ELSE CHOOSE s \in Holders(reg, key) : TRUE

\* (variant) a revoke of an id the registry does not know resets the registry
RevokeOp_Reset(reg, s) ==
  IF s \in DOMAIN reg THEN Restrict(reg, DOMAIN reg \ {s}) ELSE << >>

\* revoke(sessionId) -> void ; idempotent
RevokeOp(reg, s) == Restrict(reg, DOMAIN reg \ {s})

\* touch(sessionId) -> void | NotFoundError
TouchOp(reg, s, t) ==
  IF s \in DOMAIN reg
  THEN [status |-> "ok", reg |-> [reg EXCEPT ![s].lastAccessAt = t]]
  ELSE [status |-> "NotFoundError", reg |-> reg]

NewSession(cfg, t, who) ==
  [resourceKey |-> ResourceKey(cfg), config |-> cfg,
   lastAccessAt |-> t, owner |-> who]

Insert(reg, id, rec) == [s \in DOMAIN reg \cup {id} |-> IF s = id THEN rec ELSE reg[s]]

\* (variant) create inserts without looking for a holder of the resource
CreateOp_NoCheck(reg, cfg, force, t, id, who) ==
  [status |-> "created", sessionId |-> id, heldBy |-> NoSession, evicted |-> {},
   reg |-> Insert(SweepOp(reg, t), id, NewSession(cfg, t, who))]

\* (variant) a forced create is refused like an unforced one while the
\* resource has a holder
CreateOp_ForceIgnored(reg, cfg, force, t, id, who) ==
  LET swept  == SweepOp(reg, t)
      holder == FindOp(swept, ResourceKey(cfg))
  IN  IF holder = NoSession
      THEN [status |-> "created", sessionId |-> id, heldBy |-> NoSession, evicted |-> {},
            reg |-> Insert(swept, id, NewSession(cfg, t, who))]
      ELSE [status |-> "ConflictError", sessionId |-> NoSession, heldBy |-> holder,
            evicted |-> {}, reg |-> swept]

\* (variant) the holder is looked for before the lazy sweep has run
CreateOp_HolderBeforeSweep(reg, cfg, force, t, id, who) ==
  LET swept  == SweepOp(reg, t)
      holder == FindOp(reg, ResourceKey(cfg))
  IN  IF holder = NoSession
      THEN [status |-> "created", sessionId |-> id, heldBy |-> NoSession, evicted |-> {},
            reg |-> Insert(swept, id, NewSession(cfg, t, who))]
      ELSE IF ~force
      THEN [status |-> "ConflictError", sessionId |-> NoSession, heldBy |-> holder,
            evicted |-> {}, reg |-> swept]
      ELSE [status |-> "created", sessionId |-> id, heldBy |-> NoSession,
            evicted |-> {holder} \cap DOMAIN swept,
            reg |-> Insert(RevokeOp(swept, holder), id, NewSession(cfg, t, who))]

\* create(resourceKey, config, force) -> Session | ConflictError
\* The lazy sweep, the holder check, the eviction and the insert are one step.
CreateOp(reg, cfg, force, t, id, who) ==
  LET swept  == SweepOp(reg, t)
      holder == FindOp(swept, ResourceKey(cfg))
  IN  IF holder = NoSession
      THEN [status |-> "created", sessionId |-> id, heldBy |-> NoSession, evicted |-> {},
            reg |-> Insert(swept, id, NewSession(cfg, t, who))]
      ELSE IF ~force
      THEN [status |-> "ConflictError", sessionId |-> NoSession, heldBy |-> holder,
            evicted |-> {}, reg |-> swept]
      ELSE [status |-> "created", sessionId |-> id, heldBy |-> NoSession,
            evicted |-> {holder},
            reg |-> Insert(RevokeOp(swept, holder), id, NewSession(cfg, t, who))]

\* list() -> [Session], after the lazy sweep
ListOp(reg, t) == SweepOp(reg, t)

\* (variant) authorize looks only at the presence of the session
AuthorizeOp_NoExpiry(reg, s, t) ==
  IF s \in DOMAIN reg
  THEN [status |-> "ok", config |-> reg[s].config, reg |-> TouchOp(reg, s, t).reg]
  ELSE [status |-> "ExpiredError", config |-> NoConfig, reg |-> reg]

\* authorize(sessionId) -> Config | ExpiredError
AuthorizeOp(reg, s, t) ==
  IF s \in DOMAIN reg /\ ~IsExpired(reg, s, t)
  THEN [status |-> "ok", config |-> reg[s].config, reg |-> TouchOp(reg, s, t).reg]
  ELSE [status |-> "ExpiredError", config |-> NoConfig, reg |-> reg]

\* PUT /session/{id}?force=true : "force-creates or updates" (spec.md 6)
PutSessionForce(reg, s, cfg, t, id, who) ==
  LET swept  == SweepOp(reg, t)
      holder == FindOp(swept, ResourceKey(cfg))
      others == IF holder \in {NoSession, s} THEN swept ELSE RevokeOp(swept, holder)
  IN  IF s \in DOMAIN swept
      THEN [status |-> "updated", sessionId |-> s, heldBy |-> NoSession,
            evicted |-> IF holder \in {NoSession, s} THEN {} ELSE {holder},
            reg |-> [others EXCEPT ![s].resourceKey = ResourceKey(cfg),
                                   ![s].config = cfg,
                                   ![s].lastAccessAt = t]]
      ELSE CreateOp(reg, cfg, TRUE, t, id, who)

\* POST /api/config?session=s : the session must authorize; the resource of
\* the new configuration must not be leased to another session (409).
PostConfig(reg, s, cfg, t) ==
  LET swept  == SweepOp(reg, t)
      auth   == AuthorizeOp(swept, s, t)
      holder == FindOp(swept, ResourceKey(cfg))
  IN  IF auth.status # "ok"
      THEN [status |-> "ExpiredError", sessionId |-> NoSession, heldBy |-> NoSession,
            reg |-> swept]
      ELSE IF holder \notin {NoSession, s}
      THEN [status |-> "ConflictError", sessionId |-> NoSession, heldBy |-> holder,
            reg |-> auth.reg]
      ELSE [status |-> "ok", sessionId |-> s, heldBy |-> NoSession,
            reg |-> [auth.reg EXCEPT ![s].resourceKey = ResourceKey(cfg),
                                     ![s].config = cfg]]

\* what the last step asked of the registry, and what the registry answered
Op(op, s, cfg, force, status, heldBy) ==
  [op |-> op, session |-> s, cfg |-> cfg, force |-> force,
   status |-> status, heldBy |-> heldBy, ids |-> {}, error |-> NoError]

\* the same, with the session ids the registry reports as removed
OpIds(op, s, cfg, force, status, heldBy, ids) ==
  [Op(op, s, cfg, force, status, heldBy) EXCEPT !.ids = ids]

\* the same, with the exception the client operation throws to its caller
Throw(o, error) == [o EXCEPT !.error = error]

NoOp == Op("none", NoSession, NoConfig, FALSE, "", NoSession)

\* =================================================================
\* Node table (server.js): schema, statements, request handlers
\* =================================================================

Null    == -1                 \* SQL NULL in an INTEGER column
NodeIds == 1..MaxNodeId

\* JSON values a payload may carry for parent_id
JsNull       == [t |-> "null",  n |-> 0]
JsEmpty      == [t |-> "empty", n |-> 0]
JsNumber(k)  == [t |-> "num",   n |-> k]
ParentValues == {JsNull, JsEmpty} \cup {JsNumber(k) : k \in NodeIds}

\* request bodies: the set of keys, and the values of parent_id and sort_order
\* when present
Payloads ==
  {[cols |-> cs, parent |-> JsEmpty, sort |-> JsEmpty] : cs \in {{}, {"id"}, {"name"}}}
    \cup {[cols |-> {"parent_id"}, parent |-> v, sort |-> JsEmpty] : v \in ParentValues}

\* request bodies that also carry sort_order
SortValues == {JsNull, JsNumber(GAP), JsNumber(2 * GAP)}

OrderPayloads ==
  {[cols |-> cs, parent |-> JsEmpty, sort |-> JsEmpty] : cs \in {{}, {"name"}}}
    \cup {[cols |-> {"sort_order"}, parent |-> JsEmpty, sort |-> s] : s \in SortValues}
    \cup {[cols |-> cs, parent |-> JsNumber(k), sort |-> s] :
             cs \in {{"parent_id"}, {"parent_id", "sort_order"}}, k \in {1, 3},
             s \in {JsNumber(GAP)}}

\* normalizeIncomingValue: '' -> NULL; for the parent column (and any key that
\* contains "id") Number(value), where Number(null) is 0; any other value as it is
normalizeIncomingValue(key, value) ==
  CASE value.t = "empty"   -> Null
    [] key = "parent_id"   -> IF value.t = "null" THEN 0 ELSE value.n
    [] OTHER               -> IF value.t = "null" THEN Null ELSE value.n

\* (variant) the identity field is not filtered out
Columns_WithId(payload) == payload.cols

\* columns = Object.keys(payload).filter(key => key !== ID_FIELD)
Columns(payload) == payload.cols \ {"id"}

\* REFERENCES TABLE_NAME(ID_FIELD): every non-NULL parent_id names a row
ForeignKeysHold(tbl) ==
  \A i \in DOMAIN tbl : tbl[i].parent_id = Null \/ tbl[i].parent_id \in DOMAIN tbl

\* DELETE FROM t WHERE id IN (ids), with ON DELETE SET NULL on parent_id
DeleteRows(tbl, ids) ==
  [i \in DOMAIN tbl \ ids |->
     IF tbl[i].parent_id \in ids THEN [tbl[i] EXCEPT !.parent_id = Null] ELSE tbl[i]]

\* (variant) the join of the subtree query finds no child row
Children_None(tbl, x) == << >>

\* JOIN subtree s ON t.parent_id = s.id: the rows whose parent is x, in id order
Children(tbl, x) == Ascending({i \in DOMAIN tbl : tbl[i].parent_id = x})

\* WITH RECURSIVE subtree(id) AS (SELECT id WHERE id = ? UNION ALL SELECT t.id
\* FROM t JOIN subtree s ON t.parent_id = s.id): rows are taken off the queue
\* one at a time, emitted, and their children queued; UNION ALL keeps no set
\* of emitted rows.  A row emitted twice lies on a cycle of parent links, and
\* then the queue never drains: after as many rows as the table has, a
\* non-empty queue means the statement does not return.
RECURSIVE SubtreeStep(_, _, _, _)
SubtreeStep(tbl, todo, out, fuel) ==
  IF todo = << >> THEN [rows |-> out, returns |-> TRUE]
  ELSE IF fuel = 0 THEN [rows |-> out, returns |-> FALSE]
  ELSE SubtreeStep(tbl, Tail(todo) \o Children(tbl, Head(todo)),
                   Append(out, Head(todo)), fuel - 1)

\* (variant) the seed of the query is the id asked for, in the table or not
SubtreeQuery_SeedUnchecked(tbl, targetId) ==
  SubtreeStep(tbl, <<targetId>>, << >>, Cardinality(DOMAIN tbl))

SubtreeQuery(tbl, targetId) ==
  SubtreeStep(tbl, IF targetId \in DOMAIN tbl THEN <<targetId>> ELSE << >>, << >>,
              Cardinality(DOMAIN tbl))

Range(seq) == {seq[k] : k \in 1..Len(seq)}

NoTable == << >>

\* a request in the hands of its handler: what it asked, the statement the
\* handler waits for (at), the ids its subtree query returned and the table
\* that query read
Request(method, targetId, session, at, ids, seen) ==
  [method |-> method, targetId |-> targetId, session |-> session,
   at |-> at, ids |-> ids, seen |-> seen]

\* sendJson / res.writeHead: the request answered (its method and session
\* parameter), the status, and the ids a DELETE reports
Response(method, session, status, ids) ==
  [method |-> method, session |-> session, status |-> status, ids |-> ids]

NoResponse == Response("", NoSession, 0, << >>)

\* the rows the bootstrap inserts into an empty table
InitStore ==
  /\ table = [i \in 1..5 |->
                [parent_id  |-> IF i = 1 THEN Null ELSE IF i \in {2, 3} THEN 1 ELSE 3,
                 sort_order |-> Null]]
  /\ lastID = 5
  /\ reqs = << >>
  /\ issued = 0
  /\ response = NoResponse

\* =================================================================
\* Tree functions of the browser (tree.js, ui.js) over a node array
\* =================================================================

\* !value for a parent_id: null and 0 are falsy
Falsy(parent_id) == parent_id = Null \/ parent_id = 0

\* getChildren: data.filter(n => n.parent_id === nodeId), in array order
getChildren(nodes, nodeId) == Ascending({i \in DOMAIN nodes : nodes[i].parent_id = nodeId})

\* getDescendantIds: plain recursion over the children, with no set of visited
\* nodes.  A call nested deeper than the array has rows has met a node twice on
\* its path, and then the recursion never returns (it ends in a RangeError).
RECURSIVE getDescendantIdsAt(_, _, _)
RECURSIVE descendChildren(_, _, _)
descendChildren(nodes, children, depth) ==
  IF children = << >> THEN [ids |-> << >>, returns |-> TRUE]
  ELSE LET sub == getDescendantIdsAt(nodes, Head(children), depth + 1)
       IN  IF ~sub.returns THEN [ids |-> << >>, returns |-> FALSE]
           ELSE LET rest == descendChildren(nodes, Tail(children), depth)
                IN  [ids |-> IF rest.returns THEN <<Head(children)>> \o sub.ids \o rest.ids
                             ELSE << >>,
                     returns |-> rest.returns]

getDescendantIdsAt(nodes, nodeId, depth) ==
  IF nodeId \notin DOMAIN nodes THEN [ids |-> << >>, returns |-> TRUE]
  ELSE IF depth > Cardinality(DOMAIN nodes) THEN [ids |-> << >>, returns |-> FALSE]
  ELSE descendChildren(nodes, getChildren(nodes, nodeId), depth)

getDescendantIds(nodes, nodeId) == getDescendantIdsAt(nodes, nodeId, 0)

\* getAncestorIds: findParent with its visited set
RECURSIVE findParent(_, _, _, _)
findParent(nodes, id, visited, ancestors) ==
  IF id \in visited THEN ancestors
  ELSE IF id \notin DOMAIN nodes \/ Falsy(nodes[id].parent_id) THEN ancestors
  ELSE findParent(nodes, nodes[id].parent_id, visited \cup {id},
                  Append(ancestors, nodes[id].parent_id))

getAncestorIds(nodes, nodeId) == findParent(nodes, nodeId, {}, << >>)

\* isDescendant: getAncestorIds(data, nodeId).includes(ancestorId)
isDescendant(nodes, nodeId, ancestorId) ==
  \E k \in 1..Len(getAncestorIds(nodes, nodeId)) : getAncestorIds(nodes, nodeId)[k] = ancestorId

\* validateTree: the parents that are missing (warnings) and the nodes reported
\* as their own ancestor (errors); ids are unique by construction
validateTree(nodes) ==
  [missing  |-> {nodes[i].parent_id : i \in {j \in DOMAIN nodes : ~Falsy(nodes[j].parent_id)}}
                   \ DOMAIN nodes,
   circular |-> {i \in DOMAIN nodes :
                   ~Falsy(nodes[i].parent_id) /\ isDescendant(nodes, nodes[i].parent_id, i)}]

\* typeof index !== 'number': the index argument was left out
NoIndex == -1

\* moveNode, lines 297-315: the children of newParentId in array order get
\* 0, 10, 20, ..., then the moved node gets index * 10
Resorted(nodes, nodeId, newParentId, index) ==
  LET siblings == getChildren(nodes, newParentId)
      position(i) == CHOOSE k \in 1..Len(siblings) : siblings[k] = i
  IN  [i \in DOMAIN nodes |->
         IF i = nodeId THEN [nodes[i] EXCEPT !.sort = index * 10]
         ELSE IF nodes[i].parent_id = newParentId
         THEN [nodes[i] EXCEPT !.sort = (position(i) - 1) * 10]
         ELSE nodes[i]]

\* moveNode: whether it throws, and the array afterwards (the objects of the
\* array are shared with the caller's array, so this is also data afterwards)
moveNode(nodes, nodeId, newParentId, index) ==
  IF isDescendant(nodes, newParentId, nodeId) \/ nodeId \notin DOMAIN nodes
  THEN [throws |-> TRUE, data |-> nodes]
  ELSE LET moved == [nodes EXCEPT ![nodeId].parent_id = newParentId]
       IN  [throws |-> FALSE,
            data   |-> IF index = NoIndex THEN moved
                       ELSE Resorted(moved, nodeId, newParentId, index)]

\* TreeRenderer.buildForest: the roots, the orphans and the children lists
buildForest(nodes) ==
  LET isRoot(i) == nodes[i].parent_id = Null \/ nodes[i].parent_id = i
  IN  [roots    |-> Ascending({i \in DOMAIN nodes : isRoot(i)}),
       orphans  |-> Ascending({i \in DOMAIN nodes :
                                 ~isRoot(i) /\ nodes[i].parent_id \notin DOMAIN nodes}),
       children |-> [p \in DOMAIN nodes |->
                       Ascending({i \in DOMAIN nodes : ~isRoot(i) /\ nodes[i].parent_id = p})]]

\* buildTree: the returned top-level nodes and the children lists
buildTree(nodes) ==
  LET hasParent(i) == ~Falsy(nodes[i].parent_id) /\ nodes[i].parent_id \in DOMAIN nodes
  IN  [roots    |-> Ascending({i \in DOMAIN nodes : ~hasParent(i)}),
       children |-> [p \in DOMAIN nodes |->
                       Ascending({i \in DOMAIN nodes : hasParent(i) /\ nodes[i].parent_id = p})]]

\* the nodes a renderer reaches from the top-level nodes through the children lists
RECURSIVE Shown(_, _)
Shown(forest, S) ==
  LET next == S \cup UNION {Range(forest.children[p]) : p \in S}
  IN  IF next = S THEN S ELSE Shown(forest, next)

\* what a call returned: the function, its argument, the ids, whether it returned
Result(fn, id, ids, returns) == [fn |-> fn, id |-> id, ids |-> ids, returns |-> returns]

NoResult == Result("", Null, << >>, TRUE)

\* no node array is loaded
InitTree ==
  /\ data = NoTable
  /\ result = NoResult

\* =================================================================
\* Renumbering script (Scripts/test-0.sql) over table tool
\* =================================================================

\* the ways ROW_NUMBER() OVER (ORDER BY sort_order) may number the rows:
\* ascending sort_order, rows of equal sort_order in any order
RowNumbers(rows) ==
  {rn \in [DOMAIN rows -> 1..Cardinality(DOMAIN rows)] :
     /\ \A i, j \in DOMAIN rows : i # j => rn[i] # rn[j]
     /\ \A i, j \in DOMAIN rows : rows[i] < rows[j] => rn[i] < rn[j]}

\* (variant) the new values fall as the row number grows
NewSortOrder_Falling(rowNumber) == (2 - rowNumber) * GAP

\* (ROW_NUMBER() OVER (ORDER BY "sort_order") - 2) * 1000
NewSortOrder(rowNumber) == (rowNumber - 2) * GAP

Abs(n) == IF n < 0 THEN 0 - n ELSE n

RECURSIVE MaxOf(_)
MaxOf(S) == IF S = {} THEN 0
            ELSE LET x == CHOOSE y \in S : TRUE
                     m == MaxOf(S \ {x})
                 IN  IF x > m THEN x ELSE m

\* params.base_width: COALESCE(MAX(ABS(new_sort_order)), 0) + 1000
BaseWidth(temp) == MaxOf({Abs(temp[i]) : i \in DOMAIN temp}) + GAP

\* the value the first UPDATE writes: -(new_sort_order * base_width + id)
TempKey(temp, id) == 0 - (temp[id] * BaseWidth(temp) + id)

\* the value the second UPDATE writes
FinalKey(temp, id) == temp[id]

\* no script has run and table tool is not loaded
InitSort ==
  /\ tool = NoTable
  /\ tmp = NoTable
  /\ sortPc = "start"
  /\ pending = {}
  /\ orig = NoTable
  /\ runs = 0

InitSessions ==
  /\ sessions = << >>
  /\ nextId = 1
  /\ now = 0
  /\ lastOp = NoOp

InitClients ==
  /\ pc = [c \in Clients |-> "idle"]
  /\ cfgOf = [c \in Clients |-> NoConfig]
  /\ ls = [c \in Clients |-> NoSession]
  /\ lsLast = [c \in Clients |-> NoSession]
  /\ smId = [c \in Clients |-> NoSession]
  /\ apiId = [c \in Clients |-> NoSession]
  /\ sid = [c \in Clients |-> NoSession]
  /\ queue = [c \in Clients |-> << >>]
  /\ confirmed = [c \in Clients |-> FALSE]
  /\ inflight = {}
  /\ validating = [c \in Clients |-> NoSession]

Init == InitSessions /\ InitClients /\ InitStore /\ InitTree /\ InitSort

\* ---- registry operations triggered from outside the modelled clients

Tick ==
  /\ now < MaxTime
  /\ now' = now + 1
  /\ lastOp' = NoOp
  /\ UNCHANGED <<sessions, nextId>>
  /\ UNCHANGED clientVars
  /\ UNCHANGED <<validating, storeVars, treeVars, sortVars>>

\* periodic external trigger of sweep(now)
Sweep ==
  /\ sessions' = SweepOp(sessions, now)
  /\ lastOp' = OpIds("sweep", NoSession, NoConfig, FALSE, "ok", NoSession,
                     SweptIds(sessions, now))
  /\ UNCHANGED <<nextId, now>>
  /\ UNCHANGED clientVars
  /\ UNCHANGED <<validating, storeVars, treeVars, sortVars>>

\* an authenticated request arrives with ?session=s
Authorize(s) ==
  LET r == AuthorizeOp(sessions, s, now)
  IN  /\ sessions' = r.reg
      /\ lastOp' = Op("authorize", s, r.config, FALSE, r.status, NoSession)
      /\ UNCHANGED <<nextId, now>>
      /\ UNCHANGED clientVars
      /\ UNCHANGED <<validating, storeVars, treeVars, sortVars>>

Touch(s) ==
  LET r == TouchOp(sessions, s, now)
  IN  /\ sessions' = r.reg
      /\ lastOp' = Op("touch", s, NoConfig, FALSE, r.status, NoSession)
      /\ UNCHANGED <<nextId, now>>
      /\ UNCHANGED clientVars
      /\ UNCHANGED <<validating, storeVars, treeVars, sortVars>>

\* =================================================================
\* Browser clients: ConfigFormController.applyConfig, SessionManager
\* =================================================================

\* cleanupConflictingSessions, lines 677-689: the sessions of the listing the
\* loop sends a DELETE for
IsConflicting(session, config, t) ==
  LET sessionAge == t - session.lastAccessAt
      isExpired  == sessionAge > IdleTimeout
  IN  \/ isExpired
      \/ /\ session.config.DB_PATH = config.DB_PATH
         /\ session.config.TABLE_NAME = config.TABLE_NAME

\* applyConfig, lines 380-384: the session the fallback adopts
ExistingSession(list, config) ==
  LET same == {s \in DOMAIN list : /\ list[s].config.DB_PATH = config.DB_PATH
                                   /\ list[s].config.TABLE_NAME = config.TABLE_NAME}
  IN  IF same = {} THEN NoSession ELSE Ascending(same)[1]

\* class SessionConflictError: message, name and code; no other property
SessionConflictError ==
  [name |-> "SessionConflictError", code |-> "SESSION_CONFLICT", heldBy |-> NoSession]

GenericError == [name |-> "Error", code |-> "", heldBy |-> NoSession]

\* window.treedb.app.sessionManager is set: the page was set up by main.js
\* (setupGlobalAccess); the pages of the other clients expose no app
AppExposed(c) == c \in Tabs

\* SessionManager.setSessionId / cleanup: the three copies of the session id
setSessionId(c, sessionId) ==
  /\ smId' = [smId EXCEPT ![c] = sessionId]
  /\ apiId' = [apiId EXCEPT ![c] = sessionId]
  /\ ls' = [ls EXCEPT ![c] = sessionId]

\* applyConfig returns or throws: its locals are gone
Return(c) ==
  /\ pc' = [pc EXCEPT ![c] = "idle"]
  /\ cfgOf' = [cfgOf EXCEPT ![c] = NoConfig]
  /\ sid' = [sid EXCEPT ![c] = NoSession]
  /\ confirmed' = [confirmed EXCEPT ![c] = FALSE]

\* applyConfig up to its first request
ApplyConfigStart(c, config) ==
  /\ pc[c] = "idle"
  /\ cfgOf' = [cfgOf EXCEPT ![c] = config]
  /\ sid' = [sid EXCEPT ![c] = ls[c]]
  /\ pc' = [pc EXCEPT ![c] = IF ls[c] = NoSession THEN "cleanup" ELSE "config"]
  /\ confirmed' = [confirmed EXCEPT ![c] = FALSE]
  /\ lastOp' = NoOp
  /\ UNCHANGED <<sessions, nextId, now, ls, lsLast, smId, apiId, queue, inflight>>
  /\ UNCHANGED <<validating, storeVars, treeVars, sortVars>>

\* cleanupConflictingSessions: GET /api/session and the choice of the victims
CleanupList(c) ==
  /\ pc[c] = "cleanup"
  /\ LET list == ListOp(sessions, now)
     IN  /\ sessions' = list
         /\ queue' = [queue EXCEPT ![c] =
                Ascending({s \in DOMAIN list : IsConflicting(list[s], cfgOf[c], now)})]
  /\ pc' = [pc EXCEPT ![c] = "cleanupLoop"]
  /\ lastOp' = Op("list", NoSession, cfgOf[c], FALSE, "ok", NoSession)
  /\ UNCHANGED <<nextId, now, cfgOf, ls, lsLast, smId, apiId, sid, confirmed, inflight>>
  /\ UNCHANGED <<validating, storeVars, treeVars, sortVars>>

\* cleanupConflictingSessions: one DELETE /api/session/{id} of the loop
CleanupDelete(c) ==
  /\ pc[c] = "cleanupLoop"
  /\ queue[c] # << >>
  /\ sessions' = RevokeOp(sessions, Head(queue[c]))
  /\ queue' = [queue EXCEPT ![c] = Tail(queue[c])]
  /\ lastOp' = OpIds("revoke", Head(queue[c]), cfgOf[c], FALSE, "ok", NoSession,
                     {Head(queue[c])} \cap DOMAIN sessions)
  /\ UNCHANGED <<nextId, now, pc, cfgOf, ls, lsLast, smId, apiId, sid, confirmed, inflight>>
  /\ UNCHANGED <<validating, storeVars, treeVars, sortVars>>

\* applyConfig, lines 315-408: POST /api/session without force and the
\* handling of its response up to the confirm dialog
CreatePost(c, fail) ==
  /\ pc[c] = "cleanupLoop"
  /\ queue[c] = << >>
  /\ nextId <= MaxSessions
  /\ IF fail
     THEN /\ Return(c)
          /\ lastOp' = Throw(Op("create", NoSession, cfgOf[c], FALSE, "StoreError", NoSession),
                             GenericError)
          /\ UNCHANGED <<sessions, nextId, ls, smId, apiId>>
     ELSE LET r == CreateOp(sessions, cfgOf[c], FALSE, now, nextId, c)
          IN  /\ sessions' = r.reg
              /\ lastOp' = OpIds("create", r.sessionId, cfgOf[c], FALSE, r.status, r.heldBy,
                                 r.evicted)
              /\ IF r.status = "created"
                 THEN /\ nextId' = nextId + 1
                      /\ sid' = [sid EXCEPT ![c] = r.sessionId]
                      /\ IF AppExposed(c)
                         THEN setSessionId(c, r.sessionId)
                         ELSE /\ ls' = [ls EXCEPT ![c] = r.sessionId]
                              /\ UNCHANGED <<smId, apiId>>
                      /\ pc' = [pc EXCEPT ![c] = "config"]
                 ELSE /\ pc' = [pc EXCEPT ![c] = "confirm"]
                      /\ UNCHANGED <<nextId, sid, ls, smId, apiId>>
              /\ UNCHANGED <<cfgOf, confirmed>>
  /\ UNCHANGED <<now, lsLast, queue, inflight>>
  /\ UNCHANGED <<validating, storeVars, treeVars, sortVars>>

\* the operator answers confirm('...是否要强制覆盖现有会话？...')
Confirm(c, forceOverride) ==
  /\ pc[c] = "confirm"
  /\ IF forceOverride
     THEN /\ pc' = [pc EXCEPT ![c] = "forcePut"]
          /\ confirmed' = [confirmed EXCEPT ![c] = TRUE]
          /\ lastOp' = NoOp
          /\ UNCHANGED <<cfgOf, sid>>
     ELSE /\ Return(c)
          /\ lastOp' = Throw(NoOp, GenericError)
  /\ UNCHANGED <<sessions, nextId, now, ls, lsLast, smId, apiId, queue, inflight>>
  /\ UNCHANGED <<validating, storeVars, treeVars, sortVars>>

\* applyConfig, lines 352-371: PUT /api/session/temp-...?force=true
ForcePut(c, fail) ==
  /\ pc[c] = "forcePut"
  /\ nextId <= MaxSessions
  /\ IF fail
     THEN /\ pc' = [pc EXCEPT ![c] = "fallback"]
          /\ lastOp' = Op("create", NoSession, cfgOf[c], TRUE, "StoreError", NoSession)
          /\ UNCHANGED <<sessions, nextId, ls, sid>>
     ELSE LET r == PutSessionForce(sessions, NoSession, cfgOf[c], now, nextId, c)
          IN  /\ sessions' = r.reg
              /\ nextId' = nextId + 1
              /\ lastOp' = OpIds("create", r.sessionId, cfgOf[c], TRUE, r.status, r.heldBy,
                                 r.evicted)
              /\ sid' = [sid EXCEPT ![c] = r.sessionId]
              /\ ls' = [ls EXCEPT ![c] = r.sessionId]
              /\ pc' = [pc EXCEPT ![c] = "config"]
  /\ UNCHANGED <<now, cfgOf, lsLast, smId, apiId, queue, confirmed, inflight>>
  /\ UNCHANGED <<validating, storeVars, treeVars, sortVars>>

\* applyConfig, lines 372-400: GET /api/session and adoption of the session
\* that uses the same resource
FallbackList(c) ==
  /\ pc[c] = "fallback"
  /\ LET list == ListOp(sessions, now)
         existingSession == ExistingSession(list, cfgOf[c])
         listed == Op("list", NoSession, cfgOf[c], FALSE, "ok", NoSession)
     IN  /\ sessions' = list
         /\ IF existingSession # NoSession
            THEN /\ sid' = [sid EXCEPT ![c] = existingSession]
                 /\ ls' = [ls EXCEPT ![c] = existingSession]
                 /\ pc' = [pc EXCEPT ![c] = "config"]
                 /\ lastOp' = listed
                 /\ UNCHANGED <<cfgOf, confirmed>>
            ELSE /\ Return(c)
                 /\ lastOp' = Throw(listed, GenericError)
                 /\ UNCHANGED ls
  /\ UNCHANGED <<nextId, now, lsLast, smId, apiId, queue, inflight>>
  /\ UNCHANGED <<validating, storeVars, treeVars, sortVars>>

\* applyConfig, lines 411-446: POST /api/config?session=... and the handling
\* of its response
ConfigPost(c) ==
  /\ pc[c] = "config"
  /\ LET r == PostConfig(sessions, sid[c], cfgOf[c], now)
         posted == Op("config", sid[c], cfgOf[c], FALSE, r.status, r.heldBy)
     IN  /\ sessions' = r.reg
         /\ IF r.status = "ConflictError"
            THEN /\ pc' = [pc EXCEPT ![c] = "configForce"]
                 /\ lastOp' = posted
                 /\ UNCHANGED <<cfgOf, sid, confirmed>>
            ELSE /\ Return(c)
                 /\ lastOp' = IF r.status = "ok" THEN posted ELSE Throw(posted, GenericError)
  /\ UNCHANGED <<nextId, now, ls, lsLast, smId, apiId, queue, inflight>>
  /\ UNCHANGED <<validating, storeVars, treeVars, sortVars>>

\* applyConfig, lines 426-443: PUT /api/session/{sessionId}?force=true
ConfigForcePut(c) ==
  /\ pc[c] = "configForce"
  /\ sid[c] \in DOMAIN SweepOp(sessions, now) \/ nextId <= MaxSessions
  /\ LET r == PutSessionForce(sessions, sid[c], cfgOf[c], now, nextId, c)
     IN  /\ sessions' = r.reg
         /\ nextId' = IF r.status = "created" THEN nextId + 1 ELSE nextId
         /\ lastOp' = OpIds("update", r.sessionId, cfgOf[c], TRUE, r.status, r.heldBy,
                            r.evicted)
  /\ Return(c)
  /\ UNCHANGED <<now, ls, lsLast, smId, apiId, queue, inflight>>
  /\ UNCHANGED <<validating, storeVars, treeVars, sortVars>>

\* SessionManager.createSession(config, force)
createSession(c, config, force) ==
  /\ pc[c] = "idle"
  /\ nextId <= MaxSessions
  /\ LET r == CreateOp(sessions, config, force, now, nextId, c)
         created == OpIds("create", r.sessionId, config, force, r.status, r.heldBy, r.evicted)
     IN  /\ sessions' = r.reg
         /\ IF r.status = "created"
            THEN /\ nextId' = nextId + 1
                 /\ setSessionId(c, r.sessionId)
                 /\ lastOp' = created
            ELSE /\ lastOp' = Throw(created, SessionConflictError)
                 /\ UNCHANGED <<nextId, smId, apiId, ls>>
  /\ UNCHANGED <<now, pc, cfgOf, lsLast, sid, queue, confirmed, inflight>>
  /\ UNCHANGED <<validating, storeVars, treeVars, sortVars>>

\* SessionManager.deleteSession: DELETE /api/session?session=..., then cleanup()
deleteSession(c) ==
  /\ pc[c] = "idle"
  /\ smId[c] # NoSession
  /\ IF apiId[c] # NoSession
     THEN /\ sessions' = RevokeOp(sessions, apiId[c])
          /\ lastOp' = OpIds("revoke", apiId[c], NoConfig, FALSE, "ok", NoSession,
                             {apiId[c]} \cap DOMAIN sessions)
     ELSE /\ lastOp' = NoOp
          /\ UNCHANGED sessions
  /\ setSessionId(c, NoSession)
  /\ lsLast' = [lsLast EXCEPT ![c] = NoSession]
  /\ UNCHANGED <<nextId, now, pc, cfgOf, sid, queue, confirmed, inflight>>
  /\ UNCHANGED <<validating, storeVars, treeVars, sortVars>>

\* handlePageUnload: saveSessionForCleanup and attemptSessionRelease
handlePageUnload(c) ==
  /\ smId[c] # NoSession
  /\ lsLast' = [lsLast EXCEPT ![c] = smId[c]]
  /\ inflight' = inflight \cup {smId[c]}
  /\ lastOp' = NoOp
  /\ UNCHANGED <<sessions, nextId, now, pc, cfgOf, ls, smId, apiId, sid, queue, confirmed>>
  /\ UNCHANGED <<validating, storeVars, treeVars, sortVars>>

\* the server handles a keepalive DELETE /api/session?session=s
DeliverRelease(s) ==
  /\ s \in inflight
  /\ inflight' = inflight \ {s}
  /\ sessions' = RevokeOp(sessions, s)
  /\ lastOp' = OpIds("revoke", s, NoConfig, FALSE, "ok", NoSession, {s} \cap DOMAIN sessions)
  /\ UNCHANGED <<nextId, now, pc, cfgOf, ls, lsLast, smId, apiId, sid, queue, confirmed>>
  /\ UNCHANGED <<validating, storeVars, treeVars, sortVars>>

\* SessionManager.cleanupLeftoverSession: DELETE of treedb.lastSessionId
cleanupLeftoverSession(c) ==
  /\ lsLast[c] # NoSession
  /\ sessions' = RevokeOp(sessions, lsLast[c])
  /\ lsLast' = [lsLast EXCEPT ![c] = NoSession]
  /\ lastOp' = OpIds("revoke", lsLast[c], NoConfig, FALSE, "ok", NoSession,
                     {lsLast[c]} \cap DOMAIN sessions)
  /\ UNCHANGED <<nextId, now, pc, cfgOf, ls, smId, apiId, sid, queue, confirmed, inflight>>
  /\ UNCHANGED <<validating, storeVars, treeVars, sortVars>>

Next ==
  \/ Tick
  \/ Sweep
  \/ \E s \in SessionIds : Authorize(s)
  \/ \E s \in SessionIds : Touch(s)
  \/ \E c \in Operators, config \in Configs : ApplyConfigStart(c, config)
  \/ \E c \in Operators : CleanupList(c)
  \/ \E c \in Operators : CleanupDelete(c)
  \/ \E c \in Operators, fail \in BOOLEAN : CreatePost(c, fail)
  \/ \E c \in Operators, forceOverride \in BOOLEAN : Confirm(c, forceOverride)
  \/ \E c \in Operators, fail \in BOOLEAN : ForcePut(c, fail)
  \/ \E c \in Operators : FallbackList(c)
  \/ \E c \in Operators : ConfigPost(c)
  \/ \E c \in Operators : ConfigForcePut(c)
  \/ \E c \in Tabs, config \in Configs, force \in BOOLEAN : createSession(c, config, force)
  \/ \E c \in Tabs : deleteSession(c)

Spec == Init /\ [][Next]_vars

\* The tabs that release their session on unload, against the registry's own
\* expiry: SessionManager only, no configuration form.
NextRelease ==
  \/ Tick
  \/ Sweep
  \/ \E s \in SessionIds : Authorize(s)
  \/ \E c \in Clients, config \in Configs, force \in BOOLEAN : createSession(c, config, force)
  \/ \E c \in Clients : deleteSession(c)
  \/ \E c \in Clients : handlePageUnload(c)
  \/ \E s \in SessionIds : DeliverRelease(s)
  \/ \E c \in Clients : cleanupLeftoverSession(c)

SpecRelease == Init /\ [][NextRelease]_vars

\* SessionManager.handleSessionExpired: cleanup()
handleSessionExpired(c) ==
  /\ pc[c] = "idle"
  /\ smId[c] # NoSession
  /\ setSessionId(c, NoSession)
  /\ lsLast' = [lsLast EXCEPT ![c] = NoSession]
  /\ lastOp' = NoOp
  /\ UNCHANGED <<sessions, nextId, now, pc, cfgOf, sid, queue, confirmed, inflight>>
  /\ UNCHANGED <<validating, storeVars, treeVars, sortVars>>

\* the page is loaded: new ApiClient and new SessionManager, whose constructor
\* calls restoreSession, which sends the validation request for the id in
\* localStorage and does not wait for the answer
PageLoad(c) ==
  /\ pc[c] = "idle"
  /\ smId' = [smId EXCEPT ![c] = NoSession]
  /\ apiId' = [apiId EXCEPT ![c] = NoSession]
  /\ validating' = [validating EXCEPT ![c] = ls[c]]
  /\ lastOp' = NoOp
  /\ UNCHANGED <<sessions, nextId, now, pc, cfgOf, ls, lsLast, sid, queue, confirmed, inflight>>
  /\ UNCHANGED <<storeVars, treeVars, sortVars>>

\* how the validation request may end: answered with the list of sessions,
\* answered with a status that is not ok, or failed (network error)
Outcomes == {"answered", "refused", "failed"}

\* validateAndRestoreSession, lines 54-75: the rest of the function, run when
\* the request ends
ValidateResponse(c, outcome) ==
  /\ validating[c] # NoSession
  /\ LET sessionId == validating[c]
         list      == ListOp(sessions, now)
     IN  CASE outcome = "answered" ->
                /\ sessions' = list
                /\ lastOp' = Op("list", sessionId, NoConfig, FALSE, "ok", NoSession)
                /\ IF sessionId \in DOMAIN list
                   THEN setSessionId(c, sessionId)
                   ELSE /\ ls' = [ls EXCEPT ![c] = NoSession]
                        /\ UNCHANGED <<smId, apiId>>
           [] outcome = "refused" ->
                /\ ls' = [ls EXCEPT ![c] = NoSession]
                /\ lastOp' = NoOp
                /\ UNCHANGED <<sessions, smId, apiId>>
           [] OTHER ->
                /\ setSessionId(c, sessionId)
                /\ lastOp' = NoOp
                /\ UNCHANGED sessions
  /\ validating' = [validating EXCEPT ![c] = NoSession]
  /\ UNCHANGED <<nextId, now, pc, cfgOf, lsLast, sid, queue, confirmed, inflight>>
  /\ UNCHANGED <<storeVars, treeVars, sortVars>>

\* A page set up by main.js (SessionManager, ApiClient and the configuration
\* form together), beside another client that claims resources.
NextPage ==
  \/ \E c \in Clients, config \in Configs, force \in BOOLEAN : createSession(c, config, force)
  \/ \E c \in Tabs : deleteSession(c)
  \/ \E c \in Tabs : handleSessionExpired(c)
  \/ \E c \in Tabs : PageLoad(c)
  \/ \E c \in Tabs, outcome \in Outcomes : ValidateResponse(c, outcome)
  \/ \E c \in Tabs, config \in Configs : ApplyConfigStart(c, config)
  \/ \E c \in Tabs : CleanupList(c)
  \/ \E c \in Tabs : CleanupDelete(c)
  \/ \E c \in Tabs, fail \in BOOLEAN : CreatePost(c, fail)
  \/ \E c \in Tabs, forceOverride \in BOOLEAN : Confirm(c, forceOverride)
  \/ \E c \in Tabs, fail \in BOOLEAN : ForcePut(c, fail)
  \/ \E c \in Tabs : FallbackList(c)
  \/ \E c \in Tabs : ConfigPost(c)
  \/ \E c \in Tabs : ConfigForcePut(c)

SpecPage == Init /\ [][NextPage]_vars

\* =================================================================
\* handleApi: one action per statement the handler hands to the database
\* =================================================================

Issued == issued < MaxRequests

\* the session parameter ApiClient.addSessionParam may add to the request URL
SessionParams == {NoSession, 1}

StoreFrame == UNCHANGED <<sessions, nextId, now, lastOp, pc, cfgOf, ls, lsLast, smId, apiId,
                          sid, queue, confirmed, inflight, validating, treeVars, sortVars>>

\* the handler of a new request hands a statement to the database
Await(req) ==
  /\ reqs' = [r \in DOMAIN reqs \cup {issued + 1} |-> IF r = issued + 1 THEN req ELSE reqs[r]]
  /\ issued' = issued + 1
  /\ response' = NoResponse

\* the handler of a new request answers before another request is served
Answer(method, session, status) ==
  /\ issued' = issued + 1
  /\ response' = Response(method, session, status, << >>)
  /\ UNCHANGED reqs

\* the callback of the statement request r waits for sends the response
Complete(r, status, ids) ==
  /\ reqs' = [q \in DOMAIN reqs \ {r} |-> reqs[q]]
  /\ response' = Response(reqs[r].method, reqs[r].session, status, ids)
  /\ UNCHANGED issued

\* POST /api/nodes, lines 78-100: the column check, the INSERT, and the
\* SELECT of the new row for the 201 response
PostInsert(payload, session) ==
  /\ Issued
  /\ lastID < MaxNodeId
  /\ LET columns == Columns(payload)
         newId   == lastID + 1
         parent  == IF "parent_id" \in columns
                    THEN normalizeIncomingValue("parent_id", payload.parent)
                    ELSE Null
         sort    == IF "sort_order" \in columns
                    THEN normalizeIncomingValue("sort_order", payload.sort)
                    ELSE Null
         row     == [parent_id |-> parent, sort_order |-> sort]
         tbl     == [i \in DOMAIN table \cup {newId} |-> IF i = newId THEN row ELSE table[i]]
     IN  IF columns = {}
         THEN /\ Answer("POST", session, 400)
              /\ UNCHANGED <<table, lastID>>
         ELSE IF ~ForeignKeysHold(tbl)
         THEN /\ Answer("POST", session, 500)
              /\ UNCHANGED <<table, lastID>>
         ELSE /\ table' = tbl
              /\ lastID' = newId
              /\ Answer("POST", session, 201)
  /\ StoreFrame

\* PUT /api/nodes/:id, lines 111-137: the column check, the UPDATE, and the
\* SELECT of the row for the 200 response
PutUpdate(targetId, payload, session) ==
  /\ Issued
  /\ LET columns == Columns(payload)
         set(row) == [parent_id  |-> IF "parent_id" \in columns
                                     THEN normalizeIncomingValue("parent_id", payload.parent)
                                     ELSE row.parent_id,
                      sort_order |-> IF "sort_order" \in columns
                                     THEN normalizeIncomingValue("sort_order", payload.sort)
                                     ELSE row.sort_order]
         tbl     == [i \in DOMAIN table |-> IF i = targetId THEN set(table[i]) ELSE table[i]]
     IN  IF columns = {}
         THEN /\ Answer("PUT", session, 400)
              /\ UNCHANGED table
         ELSE IF targetId \notin DOMAIN table
         THEN /\ Answer("PUT", session, 404)
              /\ UNCHANGED table
         ELSE IF ~ForeignKeysHold(tbl)
         THEN /\ Answer("PUT", session, 500)
              /\ UNCHANGED table
         ELSE /\ table' = tbl
              /\ Answer("PUT", session, 200)
  /\ UNCHANGED lastID
  /\ StoreFrame

\* DELETE /api/nodes/:id, lines 139-153: the recursive subtree query.  A query
\* that does not return leaves the request waiting at "select" for good.
DeleteSelect(targetId, session) ==
  /\ Issued
  /\ LET q == SubtreeQuery(table, targetId)
     IN  IF ~q.returns
         THEN Await(Request("DELETE", targetId, session, "select", q.rows, NoTable))
         ELSE IF q.rows = << >>
         THEN Answer("DELETE", session, 404)
         ELSE Await(Request("DELETE", targetId, session, "delete", q.rows, table))
  /\ UNCHANGED <<table, lastID>>
  /\ StoreFrame

\* DELETE /api/nodes/:id, lines 153-160: DELETE ... WHERE id IN (ids)
DeleteRun(r) ==
  /\ r \in DOMAIN reqs
  /\ reqs[r].at = "delete"
  /\ table' = DeleteRows(table, Range(reqs[r].ids))
  /\ Complete(r, 204, reqs[r].ids)
  /\ UNCHANGED lastID
  /\ StoreFrame

NextStore ==
  \/ \E payload \in Payloads, session \in SessionParams : PostInsert(payload, session)
  \/ \E targetId \in NodeIds, payload \in Payloads, session \in SessionParams :
        PutUpdate(targetId, payload, session)
  \/ \E targetId \in NodeIds, session \in SessionParams : DeleteSelect(targetId, session)
  \/ \E r \in 1..MaxRequests : DeleteRun(r)

SpecStore == Init /\ [][NextStore]_vars

\* GET /api/nodes, lines 68-76: SELECT * ... ORDER BY id
GetNodes(session) ==
  /\ Issued
  /\ issued' = issued + 1
  /\ response' = Response("GET", session, 200, Ascending(DOMAIN table))
  /\ UNCHANGED <<table, lastID, reqs>>
  /\ StoreFrame

\* the handlers on a table that has a sort_order column
NextOrder ==
  \/ \E payload \in OrderPayloads, session \in SessionParams : PostInsert(payload, session)
  \/ \E targetId \in NodeIds, payload \in OrderPayloads, session \in SessionParams :
        PutUpdate(targetId, payload, session)
  \/ \E session \in SessionParams : GetNodes(session)

SpecOrder == Init /\ [][NextOrder]_vars

\* =================================================================
\* The tree functions applied to node arrays, cyclic ones included
\* =================================================================

\* node arrays of up to MaxRows rows whose parent_id is null or the id of a row
NodeArrays ==
  UNION {[1..n -> [parent_id : {Null} \cup 1..n]] : n \in 1..MaxRows}

TreeFrame == UNCHANGED <<sessions, nextId, now, lastOp, pc, cfgOf, ls, lsLast, smId, apiId,
                         sid, queue, confirmed, inflight, validating, storeVars, data,
                         sortVars>>

InitArrays ==
  /\ InitSessions /\ InitClients /\ InitStore
  /\ data \in NodeArrays
  /\ result = NoResult
  /\ InitSort

CallGetAncestorIds(nodeId) ==
  /\ result' = Result("getAncestorIds", nodeId, getAncestorIds(data, nodeId), TRUE)
  /\ TreeFrame

CallGetDescendantIds(nodeId) ==
  /\ LET r == getDescendantIds(data, nodeId)
     IN  result' = Result("getDescendantIds", nodeId, r.ids, r.returns)
  /\ TreeFrame

CallBuildForest ==
  /\ result' = Result("buildForest", Null, buildForest(data).roots, TRUE)
  /\ TreeFrame

CallBuildTree ==
  /\ result' = Result("buildTree", Null, buildTree(data).roots, TRUE)
  /\ TreeFrame

NextTree ==
  \/ \E nodeId \in 1..MaxRows : CallGetAncestorIds(nodeId)
  \/ \E nodeId \in 1..MaxRows : CallGetDescendantIds(nodeId)
  \/ CallBuildForest
  \/ CallBuildTree

SpecTree == InitArrays /\ [][NextTree]_vars

\* =================================================================
\* moveNode and validateTree on node arrays with a sort field
\* =================================================================

\* sort values a node may hold before it is moved
Sorts == {0, 5}

\* index arguments: left out, first position, second position
Indexes == {NoIndex, 0, 1}

\* node arrays on which validateTree reports no circular reference
SortedArrays ==
  {nodes \in UNION {[1..n -> [parent_id : {Null} \cup 1..n, sort : Sorts]] : n \in 1..MaxRows} :
     validateTree(nodes).circular = {}}

InitMove ==
  /\ InitSessions /\ InitClients /\ InitStore
  /\ data \in SortedArrays
  /\ result = NoResult
  /\ InitSort

\* a call moveNode(data, nodeId, newParentId, index)
CallMoveNode(nodeId, newParentId, index) ==
  /\ LET r == moveNode(data, nodeId, newParentId, index)
     IN  /\ data' = r.data
         /\ result' = Result("moveNode", nodeId, << >>, ~r.throws)
  /\ UNCHANGED <<sessions, nextId, now, lastOp, pc, cfgOf, ls, lsLast, smId, apiId,
                 sid, queue, confirmed, inflight, validating, storeVars, sortVars>>

NextMove ==
  \E nodeId \in 1..(MaxRows + 1), newParentId \in {Null} \cup 1..MaxRows, index \in Indexes :
       /\ newParentId \in {Null} \cup DOMAIN data
       /\ CallMoveNode(nodeId, newParentId, index)

SpecMove == InitMove /\ [][NextMove]_vars

\* =================================================================
\* The renumbering script, statement by statement and row by row
\* =================================================================

\* sort_order values table tool may hold before the script runs
SortOrders == {0 - GAP, 0 - 1, 0, GAP}

ToolTables == UNION {[1..n -> SortOrders] : n \in 1..MaxRows}

SortFrame == UNCHANGED <<sessions, nextId, now, lastOp, pc, cfgOf, ls, lsLast, smId, apiId,
                         sid, queue, confirmed, inflight, validating, storeVars, treeVars>>

InitTool ==
  /\ InitSessions /\ InitClients /\ InitStore /\ InitTree
  /\ tool \in ToolTables
  /\ tmp = NoTable
  /\ sortPc = "start"
  /\ pending = {}
  /\ orig = tool
  /\ runs = 0

\* lines 3-18: DROP / CREATE / DELETE of tmp_tool_sort and the INSERT ... SELECT
FillTmp(rn) ==
  /\ sortPc = "start"
  /\ runs < MaxRuns
  /\ tmp' = [i \in DOMAIN tool |-> NewSortOrder(rn[i])]
  /\ orig' = tool
  /\ sortPc' = "phase1"
  /\ pending' = DOMAIN tool
  /\ UNCHANGED <<tool, runs>>
  /\ SortFrame

\* lines 21-31: the first UPDATE writes one row
Phase1Write(id) ==
  /\ sortPc = "phase1"
  /\ id \in pending
  /\ tool' = [tool EXCEPT ![id] = TempKey(tmp, id)]
  /\ pending' = IF pending = {id} THEN DOMAIN tool ELSE pending \ {id}
  /\ sortPc' = IF pending = {id} THEN "phase2" ELSE "phase1"
  /\ UNCHANGED <<tmp, orig, runs>>
  /\ SortFrame

\* lines 33-39: the second UPDATE writes one row
Phase2Write(id) ==
  /\ sortPc = "phase2"
  /\ id \in pending
  /\ tool' = [tool EXCEPT ![id] = FinalKey(tmp, id)]
  /\ pending' = pending \ {id}
  /\ sortPc' = IF pending = {id} THEN "drop" ELSE "phase2"
  /\ UNCHANGED <<tmp, orig, runs>>
  /\ SortFrame

\* line 42: DROP TABLE IF EXISTS tmp_tool_sort; the script has run through
DropTmp ==
  /\ sortPc = "drop"
  /\ tmp' = NoTable
  /\ sortPc' = "done"
  /\ runs' = runs + 1
  /\ UNCHANGED <<tool, pending, orig>>
  /\ SortFrame

\* the script is run again
RunAgain ==
  /\ sortPc = "done"
  /\ runs < MaxRuns
  /\ sortPc' = "start"
  /\ UNCHANGED <<tool, tmp, pending, orig, runs>>
  /\ SortFrame

\* the connection ends between the two UPDATE statements: each statement has
\* committed on its own, the rest of the script does not run
Abort ==
  /\ sortPc = "phase2"
  /\ pending = DOMAIN tool
  /\ sortPc' = "aborted"
  /\ pending' = {}
  /\ UNCHANGED <<tool, tmp, orig, runs>>
  /\ SortFrame

NextRenumber ==
  \/ \E rn \in RowNumbers(tool) : FillTmp(rn)
  \/ \E id \in 1..MaxRows : Phase1Write(id)
  \/ \E id \in 1..MaxRows : Phase2Write(id)
  \/ DropTmp
  \/ RunAgain
  \/ Abort

SpecRenumber == InitTool /\ [][NextRenumber]_vars

\* =================================================================
\* OrderKeyAllocator.between (spec.md 4.4) over one sibling group
\* =================================================================

\* (variant) a gap of one is taken to have a midpoint
between_GapOfOne(lower, upper) ==
  IF upper - lower >= 1
  THEN [renumber |-> FALSE, key |-> (lower + upper) \div 2]
  ELSE [renumber |-> TRUE, key |-> 0]

\* between(lowerKey, upperKey): the midpoint, or a full renumber of the group
\* when the neighbours differ by 1 or less
between(lower, upper) ==
  IF upper - lower >= 2
  THEN [renumber |-> FALSE, key |-> (lower + upper) \div 2]
  ELSE [renumber |-> TRUE, key |-> 0]

\* renumberGroup as the script computes it: the final keys by row number
renumberGroup(rows, rn) ==
  LET temp == [i \in DOMAIN rows |-> NewSortOrder(rn[i])]
  IN  [i \in DOMAIN rows |-> FinalKey(temp, i)]

\* keys a sibling group may hold
GroupKeys == {10, 11, 12, 14, GAP}

\* sibling groups of two rows and more with pairwise distinct keys
Groups ==
  {g \in UNION {[1..n -> GroupKeys] : n \in 2..MaxRows} :
     \A i, j \in DOMAIN g : i # j => g[i] # g[j]}

\* lo and hi are neighbours in the order of the group
Neighbours(rows, lo, hi) ==
  /\ rows[lo] < rows[hi]
  /\ \A i \in DOMAIN rows : ~(rows[lo] < rows[i] /\ rows[i] < rows[hi])

InitGroup ==
  /\ InitSessions /\ InitClients /\ InitStore /\ InitTree
  /\ tool \in Groups
  /\ tmp = NoTable
  /\ sortPc = "start"
  /\ pending = {}
  /\ orig = tool
  /\ runs = 0

\* a row is placed between the neighbours lo and hi: it is stored with the
\* key between() returns, or the group is renumbered and the request is to be
\* made again
Between(lo, hi) ==
  /\ Cardinality(DOMAIN tool) <= MaxRows
  /\ Neighbours(tool, lo, hi)
  /\ LET b   == between(tool[lo], tool[hi])
         new == Cardinality(DOMAIN tool) + 1
     IN  IF b.renumber
         THEN /\ \E rn \in RowNumbers(tool) : tool' = renumberGroup(tool, rn)
              /\ sortPc' = "renumbered"
              /\ pending' = {}
         ELSE /\ tool' = [i \in DOMAIN tool \cup {new} |-> IF i = new THEN b.key ELSE tool[i]]
              /\ sortPc' = "stored"
              /\ pending' = {new}
  /\ orig' = tool
  /\ UNCHANGED <<tmp, runs>>
  /\ SortFrame

NextBetween == \E lo, hi \in 1..(MaxRows + 1) : lo \in DOMAIN tool /\ hi \in DOMAIN tool /\ Between(lo, hi)

SpecBetween == InitGroup /\ [][NextBetween]_vars

\* =================================================================
\* Properties of the session registry and of the clients that drive it
\* =================================================================

\* C1: session exclusivity.  In every reachable state, whatever the
\* interleaving of create (with or without force), touch, revoke and sweep
\* calls of the clients, no resourceKey is held by two sessions of the
\* registry; two create calls for one resourceKey never both leave a session.
C1_Exclusive ==
  \A s1, s2 \in DOMAIN sessions :
     sessions[s1].resourceKey = sessions[s2].resourceKey => s1 = s2

\* the operator's create arrives after another tab took the same resource: it
\* is answered ConflictError and the resource still has its one holder
C1_Witness ==
  /\ lastOp.op = "create"
  /\ lastOp.status = "ConflictError"
  /\ pc["c1"] = "confirm"
  /\ Holders(sessions, ResourceKey(lastOp.cfg)) = {lastOp.heldBy}
  /\ sessions[lastOp.heldBy].owner = "c2"

\* C2: three-step flow.  A step of the operator's applyConfig removes a
\* session that another client holds, and that is not expired, only after the
\* operator confirmed the overwrite in this applyConfig (which is asked only
\* after a create without force was answered with a conflict); a declined
\* confirmation leaves the registry as it is.
C2_ConfirmBeforeOverride ==
  [][\A c \in Operators :
       (pc[c] # "idle" /\ (pc'[c] # pc[c] \/ queue'[c] # queue[c]))
         => /\ (\E s \in DOMAIN sessions \ DOMAIN sessions' :
                   sessions[s].owner # c /\ ~IsExpired(sessions, s, now))
                  => confirmed[c]
            /\ (pc[c] = "confirm" /\ pc'[c] = "idle") => sessions' = sessions]_vars

\* C3: force takeover.  A forced create is never answered with a conflict; it
\* returns a fresh session S2 that authorizes, and the session S1 that held the
\* resource is gone.  A session id that has left the registry never returns to
\* it, so authorize(S1) fails from then on; a session that is in the registry
\* and not idle past the timeout authorizes.
C3_ForceTakeover ==
  [][/\ (lastOp'.op = "create" /\ lastOp'.force /\ lastOp'.status # "StoreError")
           => lastOp'.status = "created"
     /\ (lastOp'.force /\ lastOp'.status = "created")
           => /\ lastOp'.session = nextId
              /\ lastOp'.session \notin DOMAIN sessions
              /\ Holders(sessions', ResourceKey(lastOp'.cfg)) = {lastOp'.session}
              /\ AuthorizeOp(sessions', lastOp'.session, now').status = "ok"
              /\ \A s1 \in Holders(SweepOp(sessions, now), ResourceKey(lastOp'.cfg)) :
                    /\ s1 \in lastOp'.ids
                    /\ s1 \notin DOMAIN sessions'
                    /\ AuthorizeOp(sessions', s1, now').status = "ExpiredError"
     /\ \A s \in 1..(nextId - 1) :
           s \notin DOMAIN sessions
             => /\ s \notin DOMAIN sessions'
                /\ AuthorizeOp(sessions', s, now').status = "ExpiredError"
     /\ \A s \in DOMAIN sessions' :
           ~IsExpired(sessions', s, now') => AuthorizeOp(sessions', s, now').status = "ok"]_vars

\* a forced create has just evicted the live holder of the resource
C3_Witness ==
  /\ lastOp.op = "create"
  /\ lastOp.force
  /\ lastOp.status = "created"
  /\ lastOp.ids # {}
  /\ lastOp.ids \cap DOMAIN sessions = {}
  /\ lastOp.session \in DOMAIN sessions

\* C4: conflict without force.  When createSession without force meets a live
\* holder S1, the error it throws carries heldBy = S1, no session is created
\* and S1 keeps its claim.
C4_ConflictCarriesHolder ==
  (lastOp.op = "create" /\ ~lastOp.force /\ lastOp.status = "ConflictError"
     /\ lastOp.error # NoError)
    => /\ lastOp.heldBy \in DOMAIN sessions
       /\ lastOp.session = NoSession
       /\ lastOp.error.heldBy = lastOp.heldBy

\* C6: authorize(s) answers ok exactly when s is in the registry and its idle
\* time now - lastAccessAt does not exceed the idle timeout; then it sets
\* lastAccessAt to now, changes nothing else and returns the session's config.
\* Otherwise it answers ExpiredError, also for a session no sweep has removed
\* yet, and leaves the registry, lastAccessAt included, as it is.
C6_Authorize ==
  [][lastOp'.op = "authorize"
       => LET s == lastOp'.session
          IN  /\ lastOp'.status = "ok"
                   <=> (s \in DOMAIN sessions /\ now - sessions[s].lastAccessAt <= IdleTimeout)
              /\ lastOp'.status = "ok"
                   => /\ sessions' = [sessions EXCEPT ![s].lastAccessAt = now]
                      /\ lastOp'.cfg = sessions[s].config
              /\ lastOp'.status # "ok"
                   => /\ lastOp'.status = "ExpiredError"
                      /\ sessions' = sessions]_vars

\* authorize has just failed for a session that is idle past the timeout and
\* that no sweep has removed
C6_Witness ==
  /\ lastOp.op = "authorize"
  /\ lastOp.status = "ExpiredError"
  /\ lastOp.session \in DOMAIN sessions
  /\ now - sessions[lastOp.session].lastAccessAt > IdleTimeout

\* C7: sweep(now) removes exactly the sessions whose now - lastAccessAt exceeds
\* the idle timeout and returns exactly their ids; every other session stays,
\* with the same resourceKey, config and lastAccessAt.
C7_Sweep ==
  [][lastOp'.op = "sweep"
       => LET idle == {s \in DOMAIN sessions : now - sessions[s].lastAccessAt > IdleTimeout}
          IN  /\ lastOp'.ids = idle
              /\ DOMAIN sessions' = DOMAIN sessions \ idle
              /\ \A s \in DOMAIN sessions' : sessions'[s] = sessions[s]]_vars

\* a sweep has just removed a session and kept another one, whose idle time is
\* exactly the timeout
C7_Witness ==
  /\ lastOp.op = "sweep"
  /\ lastOp.ids # {}
  /\ \E s \in DOMAIN sessions : now - sessions[s].lastAccessAt = IdleTimeout

\* C8: revoke is idempotent.  A revoke never fails, whether the id is in the
\* registry, unknown, already revoked or already swept; it removes that
\* session and no other, and a second revoke of the same id changes nothing.
C8_RevokeIdempotent ==
  [][lastOp'.op = "revoke"
       => LET s == lastOp'.session
          IN  /\ lastOp'.status = "ok"
              /\ lastOp'.error = NoError
              /\ lastOp'.ids = {s} \cap DOMAIN sessions
              /\ DOMAIN sessions' = DOMAIN sessions \ {s}
              /\ \A o \in DOMAIN sessions' : sessions'[o] = sessions[o]
              /\ RevokeOp(sessions', s) = sessions'
              /\ s \notin DOMAIN sessions => sessions' = sessions]_vars

\* a revoke has just arrived for a session id that was handed out and has
\* already left the registry, while another session is held
C8_Witness ==
  /\ lastOp.op = "revoke"
  /\ lastOp.session \in 1..(nextId - 1)
  /\ lastOp.ids = {}
  /\ sessions # << >>

\* =================================================================
\* Properties of the node table behind /api/nodes
\* =================================================================

\* descendants(id): the transitive closure of S over parentId, computed as a
\* fixpoint over sets (each row is visited once, whatever the parent links)
RECURSIVE Closure(_, _)
Closure(tbl, S) ==
  LET next == S \cup {i \in DOMAIN tbl : tbl[i].parent_id \in S}
  IN  IF next = S THEN S ELSE Closure(tbl, next)

\* C5: session gating.  A step changes the node table only if the request it
\* serves carries a session id for which authorize succeeds at that moment; a
\* request with no session or with an unknown session changes no row.
C5_MutationsGated ==
  [][table' # table
       => AuthorizeOp(sessions, response'.session, now).status = "ok"]_vars

\* C9: subtree delete.  When the DELETE statement of DELETE /api/nodes/id
\* runs, the ids it was given are exactly {id} and the descendants of id in the
\* table the subtree query read; it removes the rows with those ids and no
\* other row, and afterwards no surviving row has a parent_id among them.  If
\* no other request changed the table since the query, the rows removed are
\* {id} and the descendants of id in the table, and every other row is as it
\* was.
C9_SubtreeDelete ==
  [][\A r \in DOMAIN reqs :
       (reqs[r].at = "delete" /\ r \notin DOMAIN reqs')
         => LET subtree == Closure(reqs[r].seen, {reqs[r].targetId})
                removed == DOMAIN table \ DOMAIN table'
            IN  /\ Range(reqs[r].ids) = subtree
                /\ removed = subtree \cap DOMAIN table
                /\ \A i \in DOMAIN table' : table'[i].parent_id \notin subtree
                /\ response' = Response("DELETE", reqs[r].session, 204, reqs[r].ids)
                /\ table = reqs[r].seen
                     => /\ removed = Closure(table, {reqs[r].targetId})
                        /\ \A i \in DOMAIN table' : table'[i] = table[i]]_vars

\* a DELETE of a node with descendants has completed: its rows are gone and
\* another row is left
C9_Witness ==
  /\ response.method = "DELETE"
  /\ response.status = 204
  /\ Len(response.ids) >= 2
  /\ Range(response.ids) \cap DOMAIN table = {}
  /\ table # NoTable

\* C10: termination on cyclic data.  The subtree query of every DELETE request
\* returns, also when the parent links reachable from id contain a cycle, and
\* it has visited each row at most once.
C10_DeleteTerminates ==
  \A r \in DOMAIN reqs :
     reqs[r].method = "DELETE"
       => /\ reqs[r].at # "select"
          /\ Cardinality(Range(reqs[r].ids)) = Len(reqs[r].ids)

\* C11: a reparent that would create a cycle is rejected.  No step gives a row
\* a a new parent b, other than a itself, that lies in the descendant closure
\* of a: such an update fails and leaves every row as it is.
C11_CycleRejected ==
  [][\A a \in DOMAIN table \cap DOMAIN table' :
       (table'[a].parent_id # table[a].parent_id /\ table'[a].parent_id # a)
         => table'[a].parent_id \notin Closure(table, {a})]_vars

\* C12: acyclicity.  Starting from the acyclic bootstrap table, after any
\* interleaving of insert, update and delete requests no row is its own
\* ancestor through non-null parent_id links (a row whose parent_id is its
\* own id counts as a root and is left aside here).
C12_Acyclic ==
  \A i \in DOMAIN table :
     i \notin Closure(table, {j \in DOMAIN table \ {i} : table[j].parent_id = i})

\* C13: delete is atomic.  When DELETE /api/nodes/id completes, no row that
\* is in the subtree of id at that moment survives: nothing another request
\* attached under the subtree after the subtree query is left behind.
C13_DeleteAtomic ==
  [][\A r \in DOMAIN reqs :
       (reqs[r].at = "delete" /\ r \notin DOMAIN reqs')
         => Closure(table, {reqs[r].targetId}) \cap DOMAIN table' = {}]_vars

\* C14: self-parent quirk.  A row whose parent_id is its own id (the server
\* accepted the update that wrote it) is treated as a root: buildForest and
\* buildTree list it among the top-level nodes, it is shown in the tree, and
\* it has no ancestors.
C14_SelfParentIsRoot ==
  \A id \in DOMAIN table :
     table[id].parent_id = id
       => /\ id \in Range(buildForest(table).roots)
          /\ id \in Shown(buildForest(table), Range(buildForest(table).roots))
          /\ id \in Range(buildTree(table).roots)
          /\ id \in Shown(buildTree(table), Range(buildTree(table).roots))
          /\ getAncestorIds(table, id) = << >>

\* C15: closure traversals are cycle-safe.  On every node array, cyclic and
\* self-referencing ones included, getAncestorIds and getDescendantIds return,
\* and no id occurs twice in what they return.
C15_TraversalsCycleSafe ==
  result.fn \in {"getAncestorIds", "getDescendantIds"}
    => /\ result.returns
       /\ Cardinality(Range(result.ids)) = Len(result.ids)

\* =================================================================
\* Properties of the renumbering script
\* =================================================================

\* C16: no transient key collision.  When the sort_order values of the table
\* are pairwise distinct as the script starts, then in every state the script
\* passes through, whatever the order in which each UPDATE writes its rows, no
\* two rows hold the same sort_order.
C16_NoTransientCollision ==
  (\A i, j \in DOMAIN orig : i # j => orig[i] # orig[j])
    => \A i, j \in DOMAIN tool : i # j => tool[i] # tool[j]

\* C17: phase-1 temporary keys.  When the first UPDATE has written all rows,
\* every row holds a strictly negative value and no two rows hold the same.
C17_TempKeysNegativeDistinct ==
  (sortPc = "phase2" /\ pending = DOMAIN tool)
    => /\ \A i \in DOMAIN tool : tool[i] < 0
       /\ \A i, j \in DOMAIN tool : i # j => tool[i] # tool[j]

\* C18: final keys.  When the script has run through on a non-empty table, the
\* rows taken in the order they had before (ascending sort_order) hold
\* positive values, each GAP more than the one before.
C18_FinalKeys ==
  (sortPc = "done" /\ tool # NoTable)
    => /\ \A i \in DOMAIN tool : tool[i] > 0
       /\ \E rn \in RowNumbers(orig) :
             \A i, j \in DOMAIN tool : rn[j] = rn[i] + 1 => tool[j] = tool[i] + GAP

\* C19: renumber atomicity.  The two UPDATE statements take effect together or
\* not at all: a script that ended between them has left the original values
\* in the table, and a script that ran through has left no temporary key.
C19_BothPhasesOrNone ==
  /\ sortPc = "aborted" => tool = orig
  /\ sortPc = "drop" => \A i \in DOMAIN tool : tool[i] = FinalKey(tmp, i)

\* C20: reorder idempotence.  Running the script a second time right after a
\* run leaves every row with the sort_order, and so the rows in the order,
\* that the run before left.
C20_Idempotent ==
  (sortPc = "done" /\ runs >= 2) => tool = orig

\* the script has run twice on a table of several rows whose order the first
\* run had to settle
C20_Witness ==
  /\ sortPc = "done"
  /\ runs = 2
  /\ Cardinality(DOMAIN tool) >= 2
  /\ tool = orig

\* =================================================================
\* Properties of the order-key allocator
\* =================================================================

\* C21: between(lower, upper) for neighbour keys lower < upper, in every
\* step that places a row between two neighbours lo and hi.  When
\* upper - lower >= 2 the row is stored with a key strictly between the two and
\* no other row changes; when the neighbours differ by 1 the group is
\* renumbered and no row is stored; in both cases no two rows of the group
\* hold the same key afterwards.
C21_Between ==
  [][\A lo, hi \in DOMAIN tool :
       Between(lo, hi)
         => /\ tool[hi] - tool[lo] >= 2
                 => /\ sortPc' = "stored"
                    /\ \E new \in DOMAIN tool' \ DOMAIN tool :
                          /\ pending' = {new}
                          /\ tool[lo] < tool'[new]
                          /\ tool'[new] < tool[hi]
                    /\ \A i \in DOMAIN tool : tool'[i] = tool[i]
            /\ tool[hi] - tool[lo] <= 1
                 => /\ sortPc' = "renumbered"
                    /\ DOMAIN tool' = DOMAIN tool
            /\ \A i, j \in DOMAIN tool' : i # j => tool'[i] # tool'[j]]_vars

\* a request between the keys 10 and 11 has renumbered the group
C21_Witness ==
  /\ sortPc = "renumbered"
  /\ \E lo, hi \in DOMAIN orig : orig[lo] = 10 /\ orig[hi] = 11
  /\ \A i, j \in DOMAIN tool : i # j => tool[i] # tool[j]

\* =================================================================
\* Properties of the node table's order and of its error answers
\* =================================================================

\* C22: insert appends after the last sibling.  A POST answered 201 has
\* created one row under the given parent (NULL when the payload names none),
\* its sort_order is the largest sort_order among the rows that were children
\* of that parent plus GAP when there is one, and no existing row has changed.
C22_InsertAppends ==
  [][\A payload \in OrderPayloads, session \in SessionParams :
       (PostInsert(payload, session) /\ response'.status = 201)
         => LET new    == lastID'
                parent == table'[new].parent_id
                keys   == {table[i].sort_order :
                             i \in {j \in DOMAIN table : table[j].parent_id = parent}} \ {Null}
            IN  /\ DOMAIN table' = DOMAIN table \cup {new}
                /\ new \notin DOMAIN table
                /\ "parent_id" \notin payload.cols => parent = Null
                /\ ("parent_id" \in payload.cols /\ payload.parent.t = "num")
                      => parent = payload.parent.n
                /\ keys # {} => table'[new].sort_order = MaxOf(keys) + GAP
                /\ \A i \in DOMAIN table : table'[i] = table[i]]_vars

\* C23: listAll ordering.  The answer to GET /api/nodes names every row of the
\* table exactly once, in strictly ascending order of the pair (sort_order, id).
C23_ListOrdered ==
  (response.method = "GET" /\ response.status = 200)
    => /\ Range(response.ids) = DOMAIN table
       /\ Len(response.ids) = Cardinality(DOMAIN table)
       /\ \A k \in 1..(Len(response.ids) - 1) :
             LET a == response.ids[k]
                 b == response.ids[k + 1]
             IN  \/ table[a].sort_order < table[b].sort_order
                 \/ (table[a].sort_order = table[b].sort_order /\ a < b)

\* C24: insert validation.  A POST is answered 400 exactly when its payload
\* has no key left once the identity field is removed, and then the table is
\* as it was.
C24_InsertValidation ==
  [][\A payload \in Payloads, session \in SessionParams :
       PostInsert(payload, session)
         => /\ response'.status = 400 <=> payload.cols \ {"id"} = {}
            /\ response'.status = 400 => (table' = table /\ lastID' = lastID)]_vars

\* a POST has been answered 400 and the table holds the rows it held
C24_Witness ==
  /\ response.method = "POST"
  /\ response.status = 400
  /\ DOMAIN table = 1..5

\* C25 (as stated): missing node.  A PUT or a DELETE for an id that is not in
\* the table is answered 404 and leaves every row of the table as it was.
C25_MissingNode ==
  [][\A targetId \in NodeIds \ DOMAIN table, session \in SessionParams :
       /\ \A payload \in Payloads :
             PutUpdate(targetId, payload, session)
               => (response'.status = 404 /\ table' = table)
       /\ DeleteSelect(targetId, session)
               => (response'.status = 404 /\ table' = table)]_vars

\* C25 (amended): a PUT whose payload has a key besides the identity field, or
\* a DELETE, for an id that is not in the table is answered 404; a PUT whose
\* payload has no such key is answered 400; both leave every row as it was.
C25_MissingNodeAmended ==
  [][\A targetId \in NodeIds \ DOMAIN table, session \in SessionParams :
       /\ \A payload \in Payloads :
             PutUpdate(targetId, payload, session)
               => /\ table' = table
                  /\ response'.status = IF payload.cols \ {"id"} = {} THEN 400 ELSE 404
       /\ DeleteSelect(targetId, session)
               => (response'.status = 404 /\ table' = table)]_vars

\* a DELETE for an id the table does not hold has been answered 404
C25_Witness ==
  /\ response.method = "DELETE"
  /\ response.status = 404

\* =================================================================
\* Properties of expiry and of the client's copies of the session id
\* =================================================================

\* C26: an expired holder never blocks a new claim.  A create without force
\* for a resource whose every holder has been idle longer than the timeout is
\* not answered ConflictError, and when it is answered with a session that
\* session is the one holder of the resource; a list never returns a session
\* whose idle time exceeds the timeout.
C26_ExpiredNeverBlocks ==
  [][LET key     == ResourceKey(lastOp'.cfg)
         blocked == /\ lastOp'.op = "create"
                    /\ ~lastOp'.force
                    /\ \A h \in Holders(sessions, key) :
                          now - sessions[h].lastAccessAt > IdleTimeout
     IN  /\ blocked => lastOp'.status # "ConflictError"
         /\ (blocked /\ lastOp'.status = "created")
               => Holders(sessions', key) = {lastOp'.session}
         /\ lastOp'.op = "list"
               => \A s \in DOMAIN sessions' : now' - sessions'[s].lastAccessAt <= IdleTimeout]_vars

\* the second session of the run was created without force, after the idle
\* timeout, for a resource the first session had claimed, and evicted nothing
C26_Witness ==
  /\ lastOp.op = "create"
  /\ ~lastOp.force
  /\ lastOp.status = "created"
  /\ lastOp.ids = {}
  /\ lastOp.session = 2
  /\ DOMAIN sessions = {2}
  /\ now > IdleTimeout
  /\ \E c \in Clients : 1 \in {sid[c], ls[c], lsLast[c]} /\ ResourceKey(cfgOf[c]) = ResourceKey(lastOp.cfg)

\* C27: client session-id consistency.  After every step in which a page set
\* up by main.js sets or clears its active session (createSession answered
\* with a session, deleteSession, handleSessionExpired, and applyConfig's
\* POST /api/session and its forced PUT answered with a session), the copies
\* SessionManager.sessionId, ApiClient.sessionId and
\* localStorage['treedb.activeSessionId'] are equal.
C27_CopiesAgree ==
  [][\A c \in Tabs :
       (\/ \E config \in Configs, force \in BOOLEAN :
              createSession(c, config, force) /\ lastOp'.status = "created"
        \/ deleteSession(c)
        \/ handleSessionExpired(c)
        \/ \E fail \in BOOLEAN : CreatePost(c, fail) /\ lastOp'.status = "created"
        \/ \E fail \in BOOLEAN : ForcePut(c, fail) /\ lastOp'.status \in {"created", "updated"})
         => (smId'[c] = apiId'[c] /\ apiId'[c] = ls'[c])]_vars

\* C28: no stale restore.  When createSession (or applyConfig) has set a
\* session id after the page was loaded, the end of the validation request
\* that restoreSession sent, whichever way it ends, leaves
\* SessionManager.sessionId and ApiClient.sessionId as they are.
C28_NoStaleRestore ==
  [][\A c \in Tabs, outcome \in Outcomes :
       (ValidateResponse(c, outcome) /\ smId[c] # NoSession)
         => (smId'[c] = smId[c] /\ apiId'[c] = apiId[c])]_vars

\* =================================================================
\* Properties of moveNode
\* =================================================================

\* C29: moveNode preserves tree validity.  On an array for which validateTree
\* reports no circular reference, a call of moveNode that returns leaves an
\* array for which validateTree reports none either, and a call that throws
\* leaves every parent link as it was.
C29_MovePreservesValidity ==
  [][(result'.fn = "moveNode" /\ validateTree(data).circular = {})
       => /\ result'.returns => validateTree(data').circular = {}
          /\ ~result'.returns
                => \A i \in DOMAIN data : data'[i].parent_id = data[i].parent_id]_vars

\* C30: moveNode positions.  After a call of moveNode with an index below the
\* number of children newParentId then has, those children hold pairwise
\* distinct sort values, the moved node is the one at position index in the
\* order of sort, and the sort of every other node is as it was.
C30_MovePositions ==
  [][\A nodeId \in DOMAIN data, newParentId \in {Null} \cup DOMAIN data,
        index \in Indexes \ {NoIndex} :
       LET kids == {i \in DOMAIN data' : data'[i].parent_id = newParentId}
       IN  (/\ CallMoveNode(nodeId, newParentId, index)
            /\ result'.returns
            /\ index < Cardinality(kids))
             => /\ \A i, j \in kids : i # j => data'[i].sort # data'[j].sort
                /\ Cardinality({k \in kids : data'[k].sort < data'[nodeId].sort}) = index
                /\ \A i \in DOMAIN data \ kids : data'[i].sort = data[i].sort]_vars
====
